---- MODULE Spec2Model ----
(***************************************************************************)
(* Model of apps/web/modules/ee/license-check/lib/license.ts:              *)
(* the license fetcher with retry/backoff (fetchLicenseFromServerInternal),*)
(* the single-flight slot (fetchLicensePromise, fetchLicense), the cache   *)
(* wrapper it calls (cache.withCache) and the public accessor              *)
(* getEnterpriseLicense.                                                   *)
(***************************************************************************)
EXTENDS Integers, Sequences, FiniteSets, TLC

(***************************************************************************)
(* Bounds of the model.                                                    *)
(***************************************************************************)
\* number of callers; each caller makes one call of the public API
NumCallers == 2
\* number of times the environment lets wall-clock time pass between steps
MaxTicks == 2

(***************************************************************************)
(* CONFIG (license.ts:20-36)                                               *)
(***************************************************************************)
FETCH_LICENSE_TTL_MS == 24 * 60 * 60 * 1000
PREVIOUS_RESULT_TTL_MS == 4 * 24 * 60 * 60 * 1000
GRACE_PERIOD_MS == 3 * 24 * 60 * 60 * 1000
MAX_RETRIES == 3
RETRY_DELAY_MS == 1000
TIMEOUT_MS == 5000

\* the status codes the retry test lists (license.ts:221)
RetryableStatuses == {429, 502, 503, 504}

(***************************************************************************)
(* Inputs drawn by the environment.                                        *)
(***************************************************************************)
\* amounts by which wall-clock time advances between steps
TimeSteps == {1, FETCH_LICENSE_TTL_MS}

\* HTTP statuses the authority answers with
StatusCodes == {200, 400, 503}

\* response bodies of a 2xx answer: does res.json() parse it, and what does
\* the parsed `data` hold
Bodies ==
    { [json |-> TRUE, status |-> "active", featuresOk |-> TRUE],
      [json |-> TRUE, status |-> "expired", featuresOk |-> TRUE],
      [json |-> TRUE, status |-> "suspended", featuresOk |-> TRUE],
      [json |-> TRUE, status |-> "active", featuresOk |-> FALSE],
      [json |-> FALSE, status |-> "", featuresOk |-> FALSE] }

NoBody == [json |-> FALSE, status |-> "", featuresOk |-> FALSE]

\* what `await fetch(...)` can produce: a response, a network-level exception,
\* or the abort fired by the timeout
FetchOutcomes ==
    { [kind |-> "response", status |-> 200, body |-> b] : b \in Bodies }
    \cup { [kind |-> "response", status |-> s, body |-> NoBody] : s \in StatusCodes \ {200} }
    \cup { [kind |-> "network-error", status |-> 0, body |-> NoBody],
           [kind |-> "abort", status |-> 0, body |-> NoBody] }

\* how long `await fetch(...)` can take, in ms: the abort fires at TIMEOUT_MS,
\* every other outcome arrives before it
RequestDurations(out) ==
    IF out.kind = "abort" THEN {TIMEOUT_MS} ELSE {1, TIMEOUT_MS - 1}

\* what Promise.all([getInstanceId(), prisma.response.count()]) can produce
GatherOutcomes == {"instance", "no-instance", "throws"}

(***************************************************************************)
(* Values.                                                                 *)
(***************************************************************************)
BooleanFeatures ==
    { "isMultiOrgEnabled", "twoFactorAuth", "sso", "whitelabel", "removeBranding",
      "contacts", "ai", "saml", "spamProtection", "auditLogs",
      "multiLanguageSurveys", "accessControl", "quotas" }

\* the feature object both public accessors return (license.ts:271-286, 295-310)
AllFeatures == [flags |-> [f \in BooleanFeatures |-> TRUE], projects |-> "Infinity"]

\* the feature object of a validated response of the authority
ServerFeatures == [flags |-> [f \in BooleanFeatures |-> f # "ai"], projects |-> "3"]

Null == [kind |-> "null"]
Details(st) == [kind |-> "details", status |-> st, features |-> ServerFeatures]
NoEntry == [kind |-> "none"]

Ret(v) == [kind |-> "return", value |-> v]
Throw(e) == [kind |-> "throw", error |-> e]
Retry(ms) == [kind |-> "retry", delay |-> ms]

VARIABLES
    key,                  \* env.ENTERPRISE_LICENSE_KEY is set
    buildPhase,           \* process.env.NEXT_PHASE === "phase-production-build"
    e2eTesting,           \* E2E_TESTING
    reachable,            \* the authority can be reached over the network
    now,                  \* Date.now()
    ticks,                \* number of clock advances so far
    cacheEntry,           \* the entry under FETCH_LICENSE_CACHE_KEY
    previousResult,       \* the entry under PREVIOUS_RESULT_CACHE_KEY
    fetchLicensePromise,  \* the in-flight slot: 0 (null) or the attempt it holds
    att,                  \* the verification attempts (one per promise created)
    caller                \* the callers of the public API

vars == <<key, buildPhase, e2eTesting, reachable, now, ticks, cacheEntry,
          previousResult, fetchLicensePromise, att, caller>>

Callers == 1..NumCallers
Attempts == 1..NumCallers

(***************************************************************************)
(* Pure parts of the code.                                                 *)
(***************************************************************************)
\* variant: a backoff that triples instead of doubling
RetryDelayTripling(retryCount) == RETRY_DELAY_MS * (3 ^ retryCount)

\* variant: a backoff that grows linearly instead of doubling
RetryDelayLinear(retryCount) == RETRY_DELAY_MS * (retryCount + 1)

\* sleep(ms) argument of the retry branch (license.ts:222)
RetryDelay(retryCount) == RETRY_DELAY_MS * (2 ^ retryCount)

\* variant: a retry test that allows one retry more
ShouldRetryOneMore(retryCount, status) ==
    retryCount <= MAX_RETRIES /\ status \in RetryableStatuses

\* variant: the retry test without the status list
ShouldRetryAnyStatus(retryCount, status) == retryCount < MAX_RETRIES

\* the retry test (license.ts:221)
ShouldRetry(retryCount, status) ==
    retryCount < MAX_RETRIES /\ status \in RetryableStatuses

\* res.ok of node-fetch
ResOk(status) == status >= 200 /\ status < 300

\* variant: a validation that accepts every JSON body
validateLicenseDetailsLax(data) == Ret(Details(data.status))

\* LicenseDetailsSchema.parse(data) (license.ts:70-73, 129-131)
validateLicenseDetails(data) ==
    IF data.status \in {"active", "expired"} /\ data.featuresOk
    THEN Ret(Details(data.status))
    ELSE Throw("ZodError")

\* variant: a network-level exception is retried like a retryable status
TryAfterFetchRetriesNetwork(retryCount, out) ==
    CASE out.kind \in {"network-error", "abort"} ->
            IF retryCount < MAX_RETRIES
            THEN Retry(RetryDelay(retryCount))
            ELSE Throw("FetchError")
      [] OTHER ->
            IF ResOk(out.status)
            THEN IF out.body.json
                 THEN validateLicenseDetails(out.body)
                 ELSE Throw("SyntaxError")
            ELSE IF ShouldRetry(retryCount, out.status)
                 THEN Retry(RetryDelay(retryCount))
                 ELSE Ret(Null)

\* variant: the constructed LicenseApiError is thrown when the status is not
\* retried
TryAfterFetchThrows(retryCount, out) ==
    CASE out.kind = "network-error" -> Throw("FetchError")
      [] out.kind = "abort" -> Throw("AbortError")
      [] OTHER ->
            IF ResOk(out.status)
            THEN IF out.body.json
                 THEN validateLicenseDetails(out.body)
                 ELSE Throw("SyntaxError")
            ELSE IF ShouldRetry(retryCount, out.status)
                 THEN Retry(RetryDelay(retryCount))
                 ELSE Throw("LicenseApiError")

\* the try block from `await fetch` on (license.ts:190-226): what it does with
\* the outcome of the request at this retry count
TryAfterFetch(retryCount, out) ==
    CASE out.kind = "network-error" -> Throw("FetchError")
      [] out.kind = "abort" -> Throw("AbortError")
      [] OTHER ->
            IF ResOk(out.status)
            THEN IF out.body.json
                 THEN validateLicenseDetails(out.body)
                 ELSE Throw("SyntaxError")
            ELSE \* a LicenseApiError is constructed and logged here, not thrown
                 IF ShouldRetry(retryCount, out.status)
                 THEN Retry(RetryDelay(retryCount))
                 ELSE Ret(Null)

\* variant: a catch block that rethrows the error of the schema validation
CatchBlockRethrowsSchema(error) ==
    IF error \in {"LicenseApiError", "ZodError"} THEN Throw(error) ELSE Ret(Null)

\* the catch block (license.ts:227-233)
CatchBlock(error) ==
    IF error = "LicenseApiError" THEN Throw(error) ELSE Ret(Null)

\* try and catch together: the fetcher's step after the request
AfterFetch(retryCount, out) ==
    LET r == TryAfterFetch(retryCount, out)
    IN IF r.kind = "throw" THEN CatchBlock(r.error) ELSE r

\* variant: a result that reports no license when no key is configured
EnterpriseLicenseResultByKey(t) ==
    [ active |-> key,
      features |-> IF key THEN AllFeatures ELSE Null,
      lastChecked |-> t,
      isPendingDowngrade |-> FALSE,
      fallbackLevel |-> IF key THEN "live" ELSE "default",
      status |-> IF key THEN "active" ELSE "no-license" ]

\* the object getEnterpriseLicense returns (license.ts:268-292)
EnterpriseLicenseResult(t) ==
    [ active |-> TRUE,
      features |-> AllFeatures,
      lastChecked |-> t,
      isPendingDowngrade |-> FALSE,
      fallbackLevel |-> "live",
      status |-> "active" ]

\* cache.withCache: is the entry present and younger than ttl
CacheFresh(entry, t, ttl) ==
    entry.kind = "entry" /\ t - entry.storedAt < ttl

\* cache.withCache: the entry after the producer returned v at time t
CacheStore(entry, v, t) ==
    IF v.kind = "details" THEN [kind |-> "entry", value |-> v, storedAt |-> t] ELSE entry

(***************************************************************************)
(* State.                                                                  *)
(***************************************************************************)
NewAttempt ==
    [ pc |-> "unborn",        \* unborn, withCache, gather, request, sleep, settled, finalized
      retryCount |-> 0,       \* the retryCount argument of the running fetcher call
      producerCalls |-> 0,    \* top-level calls of fetchLicenseFromServerInternal
      requests |-> 0,         \* network requests sent to the authority
      responses |-> <<>>,     \* what each request produced
      delays |-> <<>>,        \* the sleep(ms) calls made
      elapsed |-> 0,          \* ms spent awaiting fetch(...) and sleeping
      identity |-> "unset",   \* the instanceId of the last gathering
      caught |-> "none",      \* the error the catch block received last
      cacheHit |-> FALSE,     \* withCache answered from the cache
      noEntry |-> FALSE,      \* no cache entry existed when the promise was created
      state |-> "pending",    \* the promise: pending, fulfilled, rejected
      value |-> Null ]

IdleCaller ==
    [ pc |-> "idle",          \* idle, awaiting, returned
      op |-> "none",
      ticket |-> 0,           \* the attempt whose promise the caller was handed
      joinedSettled |-> FALSE, \* the promise handed over was already settled
      ret |-> Null ]

\* callers are numbered in the order of their calls
NextCaller(c) == \A c2 \in Callers : c2 < c => caller[c2].pc # "idle"

Started == {a \in Attempts : att[a].pc # "unborn"}
Outstanding == {a \in Attempts : att[a].pc \in {"withCache", "gather", "request", "sleep"}}

Init ==
    /\ key \in BOOLEAN
    /\ buildPhase \in BOOLEAN
    /\ e2eTesting \in BOOLEAN
    /\ reachable \in BOOLEAN
    /\ now = 0
    /\ ticks = 0
    /\ cacheEntry = NoEntry
    /\ previousResult = NoEntry
    /\ fetchLicensePromise = 0
    /\ att = [a \in Attempts |-> NewAttempt]
    /\ caller = [c \in Callers |-> IdleCaller]

(***************************************************************************)
(* The promise of an attempt settles: withCache stores what the producer   *)
(* returned and the async wrapper of fetchLicense (license.ts:249-257)     *)
(* resolves with it, or rejects with what it threw.                        *)
(***************************************************************************)
Settle(a, rec, outcome, t) ==
    /\ att' = [att EXCEPT ![a] =
                 [rec EXCEPT !.pc = "settled",
                             !.state = IF outcome.kind = "return" THEN "fulfilled" ELSE "rejected",
                             !.value = IF outcome.kind = "return" THEN outcome.value
                                       ELSE [kind |-> "error", error |-> outcome.error]]]
    /\ cacheEntry' = IF outcome.kind = "return" /\ ~rec.cacheHit
                     THEN CacheStore(cacheEntry, outcome.value, t)
                     ELSE cacheEntry

\* entry of fetchLicenseFromServerInternal(retryCount) up to its first await
\* (license.ts:136-152)
EnterFetcher(a, rec, retryCount, t) ==
    IF ~key \/ buildPhase
    THEN Settle(a, rec, Ret(Null), t)
    ELSE /\ att' = [att EXCEPT ![a] = [rec EXCEPT !.pc = "gather", !.retryCount = retryCount]]
         /\ UNCHANGED cacheEntry

(***************************************************************************)
(* Actions.                                                                *)
(***************************************************************************)
\* variant: fetchLicense without the test of the build phase
FetchLicenseNoBuildTest(c) ==
    /\ caller[c].pc = "idle"
    /\ NextCaller(c)
    /\ LET me == [caller[c] EXCEPT !.op = "fetchLicense"]
       IN IF ~key
          THEN /\ caller' = [caller EXCEPT ![c] = [me EXCEPT !.pc = "returned", !.ret = Ret(Null)]]
               /\ UNCHANGED <<fetchLicensePromise, att>>
          ELSE IF fetchLicensePromise # 0
          THEN /\ caller' = [caller EXCEPT ![c] =
                               [me EXCEPT !.pc = "awaiting",
                                          !.ticket = fetchLicensePromise,
                                          !.joinedSettled = att[fetchLicensePromise].state # "pending"]]
               /\ UNCHANGED <<fetchLicensePromise, att>>
          ELSE LET a == Cardinality(Started) + 1
               IN /\ att' = [att EXCEPT ![a] = [NewAttempt EXCEPT !.pc = "withCache",
                                                                 !.noEntry = cacheEntry = NoEntry]]
                  /\ fetchLicensePromise' = a
                  /\ caller' = [caller EXCEPT ![c] = [me EXCEPT !.pc = "awaiting", !.ticket = a]]
    /\ UNCHANGED <<key, previousResult, buildPhase, e2eTesting, reachable, now, ticks, cacheEntry>>

\* variant: fetchLicense without the test of the slot
FetchLicenseNoJoin(c) ==
    /\ caller[c].pc = "idle"
    /\ NextCaller(c)
    /\ LET me == [caller[c] EXCEPT !.op = "fetchLicense"]
       IN IF ~key \/ buildPhase
          THEN /\ caller' = [caller EXCEPT ![c] = [me EXCEPT !.pc = "returned", !.ret = Ret(Null)]]
               /\ UNCHANGED <<fetchLicensePromise, att>>
          ELSE LET a == Cardinality(Started) + 1
               IN /\ att' = [att EXCEPT ![a] = [NewAttempt EXCEPT !.pc = "withCache",
                                                                 !.noEntry = cacheEntry = NoEntry]]
                  /\ fetchLicensePromise' = a
                  /\ caller' = [caller EXCEPT ![c] = [me EXCEPT !.pc = "awaiting", !.ticket = a]]
    /\ UNCHANGED <<key, previousResult, buildPhase, e2eTesting, reachable, now, ticks, cacheEntry>>

\* variant: fetchLicense that creates the promise without storing it in the slot
FetchLicenseSlotUnset(c) ==
    /\ caller[c].pc = "idle"
    /\ NextCaller(c)
    /\ LET me == [caller[c] EXCEPT !.op = "fetchLicense"]
       IN IF ~key \/ buildPhase
          THEN /\ caller' = [caller EXCEPT ![c] = [me EXCEPT !.pc = "returned", !.ret = Ret(Null)]]
               /\ UNCHANGED <<fetchLicensePromise, att>>
          ELSE IF fetchLicensePromise # 0
          THEN /\ caller' = [caller EXCEPT ![c] =
                               [me EXCEPT !.pc = "awaiting",
                                          !.ticket = fetchLicensePromise,
                                          !.joinedSettled = att[fetchLicensePromise].state # "pending"]]
               /\ UNCHANGED <<fetchLicensePromise, att>>
          ELSE LET a == Cardinality(Started) + 1
               IN /\ att' = [att EXCEPT ![a] = [NewAttempt EXCEPT !.pc = "withCache",
                                                                 !.noEntry = cacheEntry = NoEntry]]
                  /\ UNCHANGED fetchLicensePromise
                  /\ caller' = [caller EXCEPT ![c] = [me EXCEPT !.pc = "awaiting", !.ticket = a]]
    /\ UNCHANGED <<key, previousResult, buildPhase, e2eTesting, reachable, now, ticks, cacheEntry>>

\* fetchLicense() up to its return (license.ts:236-266)
FetchLicense(c) ==
    /\ caller[c].pc = "idle"
    /\ NextCaller(c)
    /\ LET me == [caller[c] EXCEPT !.op = "fetchLicense"]
       IN IF ~key \/ buildPhase
          THEN /\ caller' = [caller EXCEPT ![c] = [me EXCEPT !.pc = "returned", !.ret = Ret(Null)]]
               /\ UNCHANGED <<fetchLicensePromise, att>>
          ELSE IF fetchLicensePromise # 0
          THEN /\ caller' = [caller EXCEPT ![c] =
                               [me EXCEPT !.pc = "awaiting",
                                          !.ticket = fetchLicensePromise,
                                          !.joinedSettled = att[fetchLicensePromise].state # "pending"]]
               /\ UNCHANGED <<fetchLicensePromise, att>>
          ELSE LET a == Cardinality(Started) + 1
               IN /\ att' = [att EXCEPT ![a] = [NewAttempt EXCEPT !.pc = "withCache",
                                                                 !.noEntry = cacheEntry = NoEntry]]
                  /\ fetchLicensePromise' = a
                  /\ caller' = [caller EXCEPT ![c] = [me EXCEPT !.pc = "awaiting", !.ticket = a]]
    /\ UNCHANGED <<key, previousResult, buildPhase, e2eTesting, reachable, now, ticks, cacheEntry>>

\* cache.withCache(producer, FETCH_LICENSE_CACHE_KEY, FETCH_LICENSE_TTL_MS):
\* answer from the cache, or call the producer
WithCache(a) ==
    /\ att[a].pc = "withCache"
    /\ IF CacheFresh(cacheEntry, now, FETCH_LICENSE_TTL_MS)
       THEN Settle(a, [att[a] EXCEPT !.cacheHit = TRUE], Ret(cacheEntry.value), now)
       ELSE EnterFetcher(a, [att[a] EXCEPT !.producerCalls = @ + 1], 0, now)
    /\ UNCHANGED <<key, previousResult, buildPhase, e2eTesting, reachable, now, ticks, fetchLicensePromise, caller>>

\* variant: the gathering without the test of the instance identity
GatherNoIdentityTest(a, g) ==
    /\ att[a].pc = "gather"
    /\ IF g = "throws"
       THEN Settle(a, [att[a] EXCEPT !.caught = "PrismaError"], CatchBlock("PrismaError"), now)
       ELSE LET instanceId == IF e2eTesting \/ g = "no-instance" THEN "null" ELSE "id"
                rec == [att[a] EXCEPT !.identity = instanceId]
            IN /\ att' = [att EXCEPT ![a] = [rec EXCEPT !.pc = "request", !.requests = @ + 1]]
               /\ UNCHANGED cacheEntry
    /\ UNCHANGED <<key, previousResult, buildPhase, e2eTesting, reachable, now, ticks, fetchLicensePromise, caller>>

\* Promise.all([getInstanceId(), prisma.response.count()]) resolves or rejects;
\* the identity test, then the request is sent (license.ts:152-196)
Gather(a, g) ==
    /\ att[a].pc = "gather"
    /\ IF g = "throws"
       THEN Settle(a, [att[a] EXCEPT !.caught = "PrismaError"], CatchBlock("PrismaError"), now)
       ELSE LET instanceId == IF e2eTesting \/ g = "no-instance" THEN "null" ELSE "id"
                rec == [att[a] EXCEPT !.identity = instanceId]
            IN IF ~e2eTesting /\ instanceId = "null"
               THEN Settle(a, rec, Ret(Null), now)
               ELSE /\ att' = [att EXCEPT ![a] = [rec EXCEPT !.pc = "request", !.requests = @ + 1]]
                    /\ UNCHANGED cacheEntry
    /\ UNCHANGED <<key, previousResult, buildPhase, e2eTesting, reachable, now, ticks, fetchLicensePromise, caller>>

\* `await fetch(...)` completes: with a response, a network exception, or the
\* abort of the timeout; the rest of the try block and the catch block
\* (license.ts:190-233)
Respond(a, out) ==
    /\ att[a].pc = "request"
    /\ (~reachable => out.kind \in {"network-error", "abort"})
    /\ \E d \in RequestDurations(out) :
          LET tried == TryAfterFetch(att[a].retryCount, out)
              r == AfterFetch(att[a].retryCount, out)
              rec == [att[a] EXCEPT !.responses = Append(@, out),
                                    !.elapsed = @ + d,
                                    !.caught = IF tried.kind = "throw" THEN tried.error ELSE @]
          IN IF r.kind = "retry"
             THEN /\ att' = [att EXCEPT ![a] = [rec EXCEPT !.pc = "sleep", !.delays = Append(@, r.delay)]]
                  /\ UNCHANGED cacheEntry
             ELSE Settle(a, rec, r, now)
    /\ UNCHANGED <<key, previousResult, buildPhase, e2eTesting, reachable, now, ticks, fetchLicensePromise, caller>>

\* the backoff timer fires and the fetcher calls itself with retryCount + 1
\* (license.ts:222-223)
Wake(a) ==
    /\ att[a].pc = "sleep"
    /\ EnterFetcher(a, [att[a] EXCEPT !.elapsed = @ + att[a].delays[Len(att[a].delays)]],
                    att[a].retryCount + 1, now)
    /\ UNCHANGED <<key, previousResult, buildPhase, e2eTesting, reachable, now, ticks, fetchLicensePromise, caller>>

\* variant: a completion callback that leaves the slot as it is
FinallySlotKept(a) == fetchLicensePromise

\* what the .finally callback assigns to the slot (license.ts:260-262)
FinallySlot(a) == 0

\* the .finally callback of the promise (license.ts:259-263); the promise
\* keeps its state and value for the callers that hold it, what was observed
\* of the finished verification is dropped
Finally(a) ==
    /\ att[a].pc = "settled"
    /\ fetchLicensePromise' = FinallySlot(a)
    /\ att' = [att EXCEPT ![a] = [NewAttempt EXCEPT !.pc = "finalized",
                                                    !.state = att[a].state,
                                                    !.value = att[a].value]]
    /\ UNCHANGED <<key, previousResult, buildPhase, e2eTesting, reachable, now, ticks, cacheEntry, caller>>

\* a caller that was handed the promise resumes with its outcome; its
\* reaction was registered after the .finally callback, so it runs after it
Resume(c) ==
    /\ caller[c].pc = "awaiting"
    /\ att[caller[c].ticket].pc = "finalized"
    /\ caller' = [caller EXCEPT ![c].pc = "returned",
                                ![c].ret = IF att[caller[c].ticket].state = "fulfilled"
                                           THEN Ret(att[caller[c].ticket].value)
                                           ELSE Throw(att[caller[c].ticket].value.error)]
    /\ UNCHANGED <<key, previousResult, buildPhase, e2eTesting, reachable, now, ticks, cacheEntry,
                   fetchLicensePromise, att>>

\* variant: getEnterpriseLicense that raises when the authority is unreachable
GetEnterpriseLicenseRaises(c) ==
    /\ caller[c].pc = "idle"
    /\ NextCaller(c)
    /\ caller' = [caller EXCEPT ![c] =
                    [caller[c] EXCEPT !.pc = "returned",
                                      !.op = "getEnterpriseLicense",
                                      !.ret = IF reachable
                                              THEN Ret(EnterpriseLicenseResult(now))
                                              ELSE Throw("LicenseError")]]
    /\ UNCHANGED <<key, previousResult, buildPhase, e2eTesting, reachable, now, ticks, cacheEntry,
                   fetchLicensePromise, att>>

\* getEnterpriseLicense() (license.ts:268-292)
GetEnterpriseLicense(c) ==
    /\ caller[c].pc = "idle"
    /\ NextCaller(c)
    /\ caller' = [caller EXCEPT ![c] =
                    [caller[c] EXCEPT !.pc = "returned",
                                      !.op = "getEnterpriseLicense",
                                      !.ret = Ret(EnterpriseLicenseResult(now))]]
    /\ UNCHANGED <<key, previousResult, buildPhase, e2eTesting, reachable, now, ticks, cacheEntry,
                   fetchLicensePromise, att>>

\* getLicenseFeatures() (license.ts:294-311)
GetLicenseFeatures(c) ==
    /\ caller[c].pc = "idle"
    /\ NextCaller(c)
    /\ caller' = [caller EXCEPT ![c] =
                    [caller[c] EXCEPT !.pc = "returned",
                                      !.op = "getLicenseFeatures",
                                      !.ret = Ret(AllFeatures)]]
    /\ UNCHANGED <<key, previousResult, buildPhase, e2eTesting, reachable, now, ticks, cacheEntry,
                   fetchLicensePromise, att>>

\* a promise reaction is queued: the completion callback of a settled
\* promise, or the continuation of a caller whose promise has settled
MicrotaskPending ==
    \/ \E a \in Attempts : att[a].pc = "settled"
    \/ \E c \in Callers : caller[c].pc = "awaiting" /\ att[caller[c].ticket].pc = "finalized"

\* wall-clock time passes, in the steps the TTLs are compared with; the
\* seconds a verification spends in requests and sleeps are counted in its
\* elapsed field and are too short to matter for a TTL; no time passes while
\* promise reactions are queued
Tick(d) ==
    /\ ticks < MaxTicks
    /\ ~MicrotaskPending
    /\ now' = now + d
    /\ ticks' = ticks + 1
    /\ UNCHANGED <<key, previousResult, buildPhase, e2eTesting, reachable, cacheEntry,
                   fetchLicensePromise, att, caller>>

\* the authority becomes unreachable, or reachable again
AuthorityChange ==
    /\ ~MicrotaskPending
    /\ reachable' = ~reachable
    /\ UNCHANGED <<key, previousResult, buildPhase, e2eTesting, now, ticks, cacheEntry,
                   fetchLicensePromise, att, caller>>

Next ==
    \/ \E c \in Callers : FetchLicense(c)
    \/ \E a \in Attempts : WithCache(a)
    \/ \E a \in Attempts, g \in GatherOutcomes : Gather(a, g)
    \/ \E a \in Attempts, out \in FetchOutcomes : Respond(a, out)
    \/ \E a \in Attempts : Wake(a)
    \/ \E a \in Attempts : Finally(a)
    \/ \E c \in Callers : Resume(c)
    \/ \E c \in Callers : GetEnterpriseLicense(c)
    \/ \E c \in Callers : GetLicenseFeatures(c)
    \/ \E d \in TimeSteps : Tick(d)
    \/ AuthorityChange

Spec == Init /\ [][Next]_vars

\* every await of a verification completes (the cache lookup, the gathering,
\* the request, the backoff timer) and every queued promise reaction runs
\* (the .finally callback, the continuation of a caller)
Fairness ==
    /\ \A a \in Attempts :
          /\ WF_vars(WithCache(a))
          /\ WF_vars(\E g \in GatherOutcomes : Gather(a, g))
          /\ WF_vars(\E out \in FetchOutcomes : Respond(a, out))
          /\ WF_vars(Wake(a))
          /\ WF_vars(Finally(a))
    /\ \A c \in Callers : WF_vars(Resume(c))

FairSpec == Spec /\ Fairness

(***************************************************************************)
(* Vocabulary of the properties.                                           *)
(***************************************************************************)
\* the promise of a has settled and its completion callback has not run yet
Settled(a) == att[a].pc = "settled"

\* the step in which caller c calls getEnterpriseLicense and gets its result
ResolveStep(c) ==
    caller[c].pc = "idle" /\ caller'[c].pc = "returned" /\ caller'[c].op = "getEnterpriseLicense"

\* the step in which caller c calls fetchLicense
FetchStep(c) ==
    caller[c].pc = "idle" /\ caller'[c].pc # "idle" /\ caller'[c].op = "fetchLicense"

ResolveReturned(c) ==
    caller[c].pc = "returned" /\ caller[c].op = "getEnterpriseLicense"

FetchReturned(c) ==
    caller[c].pc = "returned" /\ caller[c].op = "fetchLicense"

IsHttp(out) == out.kind = "response"
IsStatus(out, s) == out.kind = "response" /\ out.status = s

\* the verification ended with the handling of a response (not with the
\* gathering before a request, and not with a cache hit)
EndedByOutcome(a) ==
    Settled(a) /\ att[a].responses # <<>> /\ Len(att[a].responses) = Len(att[a].delays) + 1

LastOutcome(a) == att[a].responses[Len(att[a].responses)]

IsPrefix(s, t) == Len(s) <= Len(t) /\ \A i \in 1..Len(s) : s[i] = t[i]

LicenseResults ==
    [ active : BOOLEAN,
      features : {AllFeatures, ServerFeatures, Null},
      lastChecked : Nat,
      isPendingDowngrade : BOOLEAN,
      fallbackLevel : {"live", "cached", "grace", "default"},
      status : {"active", "expired", "unreachable", "no-license"} ]

(***************************************************************************)
(* C1 (as claimed): with the authority unreachable and an active result    *)
(* stored at T0, getEnterpriseLicense answers cached/active in             *)
(* [T0+FETCH_TTL, T0+PREVIOUS_TTL), grace/active/pending-downgrade in      *)
(* [T0+PREVIOUS_TTL, T0+PREVIOUS_TTL+GRACE_PERIOD), and                    *)
(* default/unreachable/inactive after that.                                *)
(***************************************************************************)
C1_FallbackTiers ==
    [][\A c \in Callers :
          ( /\ ResolveStep(c)
            /\ ~reachable
            /\ cacheEntry.kind = "entry"
            /\ cacheEntry.value.status = "active" )
          => LET dt == now - cacheEntry.storedAt
                 out == caller'[c].ret
             IN /\ out.kind = "return"
                /\ ( dt >= FETCH_LICENSE_TTL_MS /\ dt < PREVIOUS_RESULT_TTL_MS
                     => out.value.fallbackLevel = "cached" /\ out.value.active )
                /\ ( dt >= PREVIOUS_RESULT_TTL_MS /\ dt < PREVIOUS_RESULT_TTL_MS + GRACE_PERIOD_MS
                     => /\ out.value.fallbackLevel = "grace"
                        /\ out.value.active
                        /\ out.value.isPendingDowngrade )
                /\ ( dt >= PREVIOUS_RESULT_TTL_MS + GRACE_PERIOD_MS
                     => /\ out.value.fallbackLevel = "default"
                        /\ out.value.status = "unreachable"
                        /\ ~out.value.active )
      ]_vars

(***************************************************************************)
(* C2 (as claimed): with no license key configured, every                  *)
(* getEnterpriseLicense call returns status no-license and active false,   *)
(* and no network request is ever sent.                                    *)
(***************************************************************************)
C2_NoKeyNoLicense ==
    ~key =>
        /\ \A a \in Attempts : att[a].pc = "unborn" /\ att[a].requests = 0
        /\ \A c \in Callers :
              ResolveReturned(c) =>
                 /\ caller[c].ret.kind = "return"
                 /\ caller[c].ret.value.status = "no-license"
                 /\ ~caller[c].ret.value.active

(***************************************************************************)
(* C3 (as claimed): the callers that call fetchLicense while no cache      *)
(* entry exists and share one in-flight promise trigger exactly one        *)
(* network request in total.                                               *)
(***************************************************************************)
C3_ExactlyOneNetworkCall ==
    \A a \in Attempts :
        Settled(a) /\ att[a].noEntry => att[a].requests = 1

(***************************************************************************)
(* C3 (amended): concurrent fetchLicense calls share one verification:     *)
(* all callers waiting on a pending promise hold the same promise, a       *)
(* promise calls the fetcher at top level at most once, and exactly once   *)
(* when no cache entry existed; that verification sends at most            *)
(* MAX_RETRIES + 1 requests: none when it ends before the first request,   *)
(* exactly one when the first request's outcome is not a retried status.   *)
(* getEnterpriseLicense never starts or joins a verification.              *)
(***************************************************************************)
C3_SingleFlight ==
    /\ \A c1, c2 \in Callers :
          ( /\ caller[c1].pc = "awaiting" /\ att[caller[c1].ticket].state = "pending"
            /\ caller[c2].pc = "awaiting" /\ att[caller[c2].ticket].state = "pending" )
          => caller[c1].ticket = caller[c2].ticket
    /\ \A c \in Callers : caller[c].op = "getEnterpriseLicense" => caller[c].ticket = 0
    /\ \A a \in Attempts :
          /\ att[a].producerCalls <= 1
          /\ att[a].requests <= MAX_RETRIES + 1
          /\ Settled(a) /\ att[a].noEntry =>
                /\ att[a].producerCalls = 1
                /\ (att[a].responses = <<>> => att[a].requests = 0)
                /\ ( att[a].responses # <<>>
                     /\ ~( IsHttp(att[a].responses[1])
                           /\ att[a].responses[1].status \in RetryableStatuses )
                     => att[a].requests = 1 )

\* two callers were handed the same promise while it was pending, and the
\* verification, started with no cache entry, has ended after two requests
C3_Witness ==
    \E c1, c2 \in Callers :
        /\ c1 # c2
        /\ caller[c1].pc = "awaiting" /\ caller[c2].pc = "awaiting"
        /\ caller[c1].ticket = caller[c2].ticket
        /\ ~caller[c1].joinedSettled /\ ~caller[c2].joinedSettled
        /\ Settled(caller[c1].ticket)
        /\ att[caller[c1].ticket].noEntry
        /\ att[caller[c1].ticket].requests = 2

(***************************************************************************)
(* C4: while a verification is outstanding, a fetchLicense call joins it:  *)
(* the caller is handed the outstanding promise, no new promise is created *)
(* and the producer is not invoked by the call; and every caller handed a  *)
(* promise returns the outcome of that promise, so all of them return the  *)
(* same value or the same failure.                                         *)
(***************************************************************************)
C4_JoinOutstanding ==
    [][ /\ \A c \in Callers :
              FetchStep(c) /\ key /\ Outstanding # {}
              => /\ caller'[c].pc = "awaiting"
                 /\ caller'[c].ticket \in Outstanding
                 /\ att' = att
                 /\ fetchLicensePromise' = fetchLicensePromise
        /\ \A c \in Callers :
              caller'[c].pc = "returned" /\ caller'[c].ticket # 0
              => /\ att'[caller'[c].ticket].state # "pending"
                 /\ caller'[c].ret =
                       IF att'[caller'[c].ticket].state = "fulfilled"
                       THEN Ret(att'[caller'[c].ticket].value)
                       ELSE Throw(att'[caller'[c].ticket].value.error)
        /\ \A c1, c2 \in Callers :
              ( /\ caller'[c1].pc = "returned" /\ caller'[c2].pc = "returned"
                /\ caller'[c1].ticket # 0
                /\ caller'[c1].ticket = caller'[c2].ticket )
              => caller'[c1].ret = caller'[c2].ret
      ]_vars

\* a caller joined while the verification was pending, and both callers
\* returned the details the verification ended with
C4_Witness ==
    \E c1, c2 \in Callers :
        /\ c1 # c2
        /\ FetchReturned(c1) /\ FetchReturned(c2)
        /\ caller[c1].ticket = caller[c2].ticket
        /\ caller[c1].ticket # 0
        /\ ~caller[c1].joinedSettled /\ ~caller[c2].joinedSettled
        /\ caller[c1].ret = Ret(Details("active"))
        /\ caller[c2].ret = Ret(Details("active"))

(***************************************************************************)
(* C5 (as claimed): a fetchLicense call made after a verification          *)
(* completed is never handed the finished promise.                         *)
(***************************************************************************)
C5_NeverFinishedPromise ==
    \A c \in Callers : ~caller[c].joinedSettled

(***************************************************************************)
(* C5 (amended): the completion callback of a promise clears the slot,     *)
(* whether the verification produced details or null; the slot never holds *)
(* a promise whose callback has run; and a fetchLicense call made when     *)
(* every promise created so far has had its callback run starts a new      *)
(* attempt.                                                                *)
(***************************************************************************)
C5_ClearedByCallback ==
    [][ /\ \A a \in Attempts :
              att[a].pc = "settled" /\ att'[a].pc = "finalized" => fetchLicensePromise' = 0
        /\ fetchLicensePromise' # 0 => att'[fetchLicensePromise'].pc # "finalized"
        /\ \A c \in Callers :
              ( /\ FetchStep(c) /\ key /\ ~buildPhase
                /\ \A a \in Started : att[a].pc = "finalized" )
              => /\ caller'[c].ticket \notin Started
                 /\ caller'[c].ticket # 0
                 /\ fetchLicensePromise' = caller'[c].ticket
                 /\ att'[caller'[c].ticket].pc = "withCache"
                 /\ ~caller'[c].joinedSettled
      ]_vars

\* a first verification failed (null) and had its callback run; the next
\* call started a second one
C5_Witness ==
    /\ att[1].pc = "finalized"
    /\ att[1].state = "fulfilled"
    /\ att[1].value = Null
    /\ att[2].pc \in {"withCache", "gather"}
    /\ fetchLicensePromise = 2
    /\ \E c \in Callers : caller[c].pc = "awaiting" /\ caller[c].ticket = 2

(***************************************************************************)
(* C6 (as claimed): after an active result was stored at T, a              *)
(* getEnterpriseLicense call before T + FETCH_TTL returns live without     *)
(* starting a verification, and a call at T + FETCH_TTL + 1 or later       *)
(* starts one (which is what sends the new network request).               *)
(***************************************************************************)
C6_LiveThenRefetch ==
    [][\A c \in Callers :
          ( /\ ResolveStep(c)
            /\ cacheEntry.kind = "entry"
            /\ cacheEntry.value.status = "active" )
          => LET dt == now - cacheEntry.storedAt
             IN /\ ( dt < FETCH_LICENSE_TTL_MS
                     => /\ caller'[c].ret.kind = "return"
                        /\ caller'[c].ret.value.fallbackLevel = "live"
                        /\ att' = att )
                /\ ( dt >= FETCH_LICENSE_TTL_MS + 1
                     => \/ caller'[c].ticket # 0
                        \/ att' # att )
      ]_vars

(***************************************************************************)
(* C7: a verification whose every request was answered with 503 and that   *)
(* ended with such an answer sent MAX_RETRIES + 1 requests, slept 1000,    *)
(* 2000 and 4000 ms in that order, and returned null; while it runs, its   *)
(* sleeps are a prefix of that sequence.                                   *)
(***************************************************************************)
C7_Retry503 ==
    \A a \in Attempts :
        ( /\ att[a].responses # <<>>
          /\ \A i \in 1..Len(att[a].responses) : IsStatus(att[a].responses[i], 503) )
        => /\ IsPrefix(att[a].delays, <<1000, 2000, 4000>>)
           /\ att[a].requests <= MAX_RETRIES + 1
           /\ att[a].pc \in {"sleep", "gather", "request"}
                 => Len(att[a].delays) = Len(att[a].responses)
           /\ EndedByOutcome(a) =>
                 /\ Len(att[a].responses) = MAX_RETRIES + 1
                 /\ att[a].requests = MAX_RETRIES + 1
                 /\ att[a].delays = <<1000, 2000, 4000>>
                 /\ att[a].state = "fulfilled"
                 /\ att[a].value = Null

\* four 503 answers, three sleeps, null
C7_Witness ==
    \E a \in Attempts :
        /\ Settled(a)
        /\ Len(att[a].responses) = 4
        /\ \A i \in 1..4 : IsStatus(att[a].responses[i], 503)
        /\ att[a].delays = <<1000, 2000, 4000>>
        /\ att[a].value = Null

(***************************************************************************)
(* C8: a non-2xx answer whose status is not 429, 502, 503 or 504 is the    *)
(* last thing its verification does: it is the last response, no sleep     *)
(* and no request follows it, and the verification returns null.           *)
(***************************************************************************)
C8_NoRetryOnTerminalStatus ==
    \A a \in Attempts :
        \A i \in 1..Len(att[a].responses) :
            ( /\ IsHttp(att[a].responses[i])
              /\ ~ResOk(att[a].responses[i].status)
              /\ att[a].responses[i].status \notin {429, 502, 503, 504} )
            => /\ i = Len(att[a].responses)
               /\ Settled(a)
               /\ att[a].state = "fulfilled"
               /\ att[a].value = Null
               /\ Len(att[a].delays) = i - 1
               /\ att[a].requests = i

\* a 400 that arrived at retry count 2
C8_Witness ==
    \E a \in Attempts :
        /\ Settled(a)
        /\ Len(att[a].responses) = 3
        /\ att[a].retryCount = 2
        /\ IsStatus(att[a].responses[3], 400)
        /\ att[a].requests = 3
        /\ att[a].delays = <<1000, 2000>>

(***************************************************************************)
(* C9: every getEnterpriseLicense call returns a LicenseResult and never   *)
(* raises, whatever the key, the cache, the authority and the outcome of   *)
(* earlier verifications.                                                  *)
(***************************************************************************)
C9_ResolveNeverRaises ==
    \A c \in Callers :
        ResolveReturned(c) =>
            /\ caller[c].ret.kind = "return"
            /\ caller[c].ret.value \in LicenseResults

\* a call answered while the authority was unreachable, after a verification
\* that failed with a network-level exception
C9_Witness ==
    \E c \in Callers :
        /\ ResolveReturned(c)
        /\ ~reachable
        /\ \E a \in Attempts : Settled(a) /\ att[a].caught \in {"FetchError", "AbortError"}

(***************************************************************************)
(* C10: the fetcher never throws: no promise is rejected, the catch block  *)
(* never receives a LicenseApiError, and a verification that ended with a  *)
(* timeout abort, a network exception, a non-2xx status or a malformed     *)
(* body returned null.                                                     *)
(***************************************************************************)
C10_FetcherNeverThrows ==
    \A a \in Attempts :
        /\ att[a].state # "rejected"
        /\ att[a].caught # "LicenseApiError"
        /\ ( /\ EndedByOutcome(a)
             /\ \/ LastOutcome(a).kind \in {"abort", "network-error"}
                \/ ~ResOk(LastOutcome(a).status)
                \/ ~LastOutcome(a).body.json
                \/ LastOutcome(a).body.status \notin {"active", "expired"}
                \/ ~LastOutcome(a).body.featuresOk )
           => att[a].state = "fulfilled" /\ att[a].value = Null

\* a verification ended by a body that fails the schema, after one retry,
\* with null
C10_Witness ==
    \E a \in Attempts :
        /\ Settled(a)
        /\ Len(att[a].responses) = 2
        /\ att[a].caught = "ZodError"
        /\ att[a].state = "fulfilled"
        /\ att[a].value = Null

\* the last response of the verification is a 2xx answer whose body parses
\* as JSON and fails LicenseDetailsSchema
EndedBySchemaFailure(a) ==
    /\ EndedByOutcome(a)
    /\ IsHttp(LastOutcome(a))
    /\ ResOk(LastOutcome(a).status)
    /\ LastOutcome(a).body.json
    /\ (LastOutcome(a).body.status \notin {"active", "expired"} \/ ~LastOutcome(a).body.featuresOk)

(***************************************************************************)
(* C11, as claimed: a 2xx answer whose body fails the schema makes the     *)
(* verification end with the schema error, which reaches the caller of     *)
(* the fetch: the promise is rejected with it.                             *)
(***************************************************************************)
C11_SchemaErrorPropagates ==
    \A a \in Attempts :
        EndedBySchemaFailure(a) =>
            /\ att[a].state = "rejected"
            /\ att[a].value = [kind |-> "error", error |-> "ZodError"]

(***************************************************************************)
(* C11, as the code has it: the schema error of a 2xx answer leaves the    *)
(* validation and is received by the catch block of the fetcher, which     *)
(* returns null; the caller of the fetch gets null, and no sleep follows   *)
(* the answer.                                                             *)
(***************************************************************************)
C11_SchemaErrorCaught ==
    \A a \in Attempts :
        EndedBySchemaFailure(a) =>
            /\ att[a].caught = "ZodError"
            /\ att[a].state = "fulfilled"
            /\ att[a].value = Null
            /\ att[a].requests = Len(att[a].responses)

\* a first answer 200 with a body whose status is not in the schema
C11_Witness ==
    \E a \in Attempts :
        /\ EndedBySchemaFailure(a)
        /\ Len(att[a].responses) = 1
        /\ LastOutcome(a).body.status \notin {"active", "expired"}
        /\ att[a].caught = "ZodError"

\* the verification ended with a failed request: a timeout abort, a network
\* exception, a non-2xx status, or a 2xx body that is not JSON or fails the
\* schema
EndedByFailure(a) ==
    /\ EndedByOutcome(a)
    /\ \/ LastOutcome(a).kind \in {"abort", "network-error"}
       \/ ~ResOk(LastOutcome(a).status)
       \/ ~LastOutcome(a).body.json
       \/ EndedBySchemaFailure(a)

(***************************************************************************)
(* C12: a failed verification writes nothing to the cache. The step in     *)
(* which a verification ends with a failed request leaves the cache entry  *)
(* as it was; the entry changes only in the step in which a verification   *)
(* ends with a non-null outcome it did not take from the cache, and then   *)
(* to that outcome; and a lookup made while the entry is younger than its  *)
(* TTL is answered with the value of the entry.                            *)
(***************************************************************************)
C12_FailureWritesNothing ==
    [][ /\ \A a \in Attempts :
              (~Settled(a) /\ Settled(a)' /\ EndedByFailure(a)') => cacheEntry' = cacheEntry
        /\ cacheEntry' # cacheEntry =>
              \E a \in Attempts :
                  /\ ~Settled(a) /\ Settled(a)'
                  /\ att'[a].state = "fulfilled"
                  /\ att'[a].value.kind = "details"
                  /\ ~att'[a].cacheHit
                  /\ cacheEntry' = [kind |-> "entry", value |-> att'[a].value, storedAt |-> now]
        /\ \A a \in Attempts :
              ( /\ att[a].pc = "withCache" /\ att'[a].pc # "withCache"
                /\ cacheEntry.kind = "entry"
                /\ now - cacheEntry.storedAt < FETCH_LICENSE_TTL_MS )
              => /\ Settled(a)'
                 /\ att'[a].value = cacheEntry.value
                 /\ att'[a].requests = 0
                 /\ cacheEntry' = cacheEntry
      ]_vars

\* an entry stored by an earlier verification is still there after a later
\* verification, started when the entry had expired, ended with a failure
C12_Witness ==
    \E a \in Attempts :
        /\ Settled(a)
        /\ EndedByFailure(a)
        /\ cacheEntry.kind = "entry"
        /\ now - cacheEntry.storedAt >= FETCH_LICENSE_TTL_MS

(***************************************************************************)
(* C13, as claimed: whenever the fresh entry holds the outcome of a        *)
(* verification, the previous-result entry holds the same value, written   *)
(* at the same time.                                                       *)
(***************************************************************************)
C13_WriteThrough ==
    cacheEntry.kind = "entry" =>
        /\ previousResult.kind = "entry"
        /\ previousResult.value = cacheEntry.value
        /\ previousResult.storedAt = cacheEntry.storedAt

(***************************************************************************)
(* C14: a request that ends with a network-level exception or with the     *)
(* abort of the timeout is the last thing its verification does, at every  *)
(* retry count: it is the last outcome, the catch block received its       *)
(* error, no sleep and no request follows it, and the verification         *)
(* returns null.                                                           *)
(***************************************************************************)
C14_NoRetryOnNetworkException ==
    \A a \in Attempts :
        \A i \in 1..Len(att[a].responses) :
            att[a].responses[i].kind \in {"network-error", "abort"}
            => /\ i = Len(att[a].responses)
               /\ Settled(a)
               /\ att[a].caught = IF att[a].responses[i].kind = "abort"
                                  THEN "AbortError" ELSE "FetchError"
               /\ att[a].state = "fulfilled"
               /\ att[a].value = Null
               /\ Len(att[a].delays) = i - 1
               /\ att[a].requests = i
               /\ att[a].retryCount = i - 1

\* a timeout abort at retry count 1, after a retried 503
C14_Witness ==
    \E a \in Attempts :
        /\ Settled(a)
        /\ att[a].retryCount = 1
        /\ Len(att[a].responses) = 2
        /\ IsStatus(att[a].responses[1], 503)
        /\ att[a].responses[2].kind = "abort"
        /\ att[a].delays = <<1000>>
        /\ att[a].requests = 2

\* the retries of the verification are used up: its fourth request was
\* answered with a retryable status
RetriesExhausted(a) ==
    /\ Len(att[a].responses) = MAX_RETRIES + 1
    /\ IsHttp(att[a].responses[MAX_RETRIES + 1])
    /\ att[a].responses[MAX_RETRIES + 1].status \in RetryableStatuses

C16_BlocksAtMostTimeoutTimesAttempts ==
    \A a \in Attempts : att[a].elapsed <= TIMEOUT_MS * (MAX_RETRIES + 1)

\* the sum of the sleep(ms) arguments of a sequence of sleeps
RECURSIVE SumOf(_)
SumOf(seq) == IF seq = <<>> THEN 0 ELSE seq[1] + SumOf(Tail(seq))

(***************************************************************************)
(* C16, as the code has it: a getEnterpriseLicense call never waits for a  *)
(* verification; and the time a verification spends awaiting its requests  *)
(* and sleeping is at most TIMEOUT_MS for each request sent plus the       *)
(* backoff sleeps made, which is at most 4 * 5000 + (1000 + 2000 + 4000)   *)
(* = 27000 ms.                                                             *)
(***************************************************************************)
C16_BlocksAtMostTimeoutsPlusBackoff ==
    /\ \A c \in Callers :
          caller[c].op = "getEnterpriseLicense" => caller[c].pc = "returned" /\ caller[c].ticket = 0
    /\ \A a \in Attempts :
          /\ att[a].elapsed <= TIMEOUT_MS * att[a].requests + SumOf(att[a].delays)
          /\ att[a].elapsed <= TIMEOUT_MS * (MAX_RETRIES + 1)
                                 + RETRY_DELAY_MS * (2 ^ MAX_RETRIES - 1)

\* a verification that has been in requests and sleeps for more than 20000 ms:
\* three slow 503 answers, the three sleeps, and a fourth request timed out
C16_Witness ==
    \E a \in Attempts :
        /\ Settled(a)
        /\ att[a].requests = MAX_RETRIES + 1
        /\ LastOutcome(a).kind = "abort"
        /\ att[a].elapsed > TIMEOUT_MS * (MAX_RETRIES + 1)
        /\ att[a].elapsed = 3 * (TIMEOUT_MS - 1) + SumOf(att[a].delays) + TIMEOUT_MS

(***************************************************************************)
(* C17: a fetchLicense call made in the build phase returns null in the    *)
(* same step, and that step starts no verification, sends no request and   *)
(* leaves the attempts, the in-flight slot and both cache entries as they  *)
(* were; in the build phase no verification is ever started, the slot is   *)
(* never occupied and the cache is never written.                          *)
(***************************************************************************)
C17_BuildPhaseShortCircuit ==
    /\ [][ \A c \in Callers :
             (FetchStep(c) /\ buildPhase)
             => /\ caller'[c].pc = "returned"
                /\ caller'[c].ret = Ret(Null)
                /\ caller'[c].ticket = 0
                /\ att' = att
                /\ fetchLicensePromise' = fetchLicensePromise
                /\ cacheEntry' = cacheEntry
                /\ previousResult' = previousResult ]_vars
    /\ [](buildPhase => /\ Started = {}
                        /\ fetchLicensePromise = 0
                        /\ cacheEntry = NoEntry)

\* two fetchLicense calls answered null in the build phase, with a key
C17_Witness ==
    /\ buildPhase
    /\ key
    /\ \A c \in Callers : FetchReturned(c) /\ caller[c].ret = Ret(Null)
    /\ fetchLicensePromise = 0

\* the verification ended in the gathering before a request: every request
\* it sent had been answered and slept after
EndedBeforeRequest(a) ==
    /\ Settled(a)
    /\ att[a].requests = Len(att[a].responses)
    /\ Len(att[a].delays) = Len(att[a].responses)

(***************************************************************************)
(* C18, as claimed: whenever the instance identity of an attempt is null,  *)
(* the verification ended in that gathering with null, and no request was  *)
(* sent after it.                                                          *)
(***************************************************************************)
C18_NoIdentityNoRequest ==
    \A a \in Attempts :
        att[a].identity = "null" =>
            /\ EndedBeforeRequest(a)
            /\ att[a].state = "fulfilled"
            /\ att[a].value = Null

(***************************************************************************)
(* C18, as the code has it: outside E2E testing a null instance identity   *)
(* ends the verification in that gathering with null and no request is     *)
(* sent after it; under E2E testing the identity provider is not asked,    *)
(* the identity is null on purpose and the request is sent without it.     *)
(***************************************************************************)
C18_NoIdentityNoRequestUnlessE2E ==
    \A a \in Attempts :
        /\ (~e2eTesting /\ att[a].identity = "null") =>
              /\ EndedBeforeRequest(a)
              /\ att[a].state = "fulfilled"
              /\ att[a].value = Null
        /\ (~e2eTesting /\ att[a].pc \in {"request", "sleep"}) => att[a].identity = "id"
        /\ e2eTesting => att[a].identity # "id"
        /\ (e2eTesting /\ att[a].identity = "null") => att[a].requests >= 1

\* outside E2E testing, the identity provider yields null in the gathering
\* of a retry: one request was sent before, none after
C18_Witness ==
    \E a \in Attempts :
        /\ ~e2eTesting
        /\ att[a].identity = "null"
        /\ Settled(a)
        /\ att[a].retryCount = 1
        /\ att[a].requests = 1
        /\ att[a].value = Null

\* the step in which caller c calls getLicenseFeatures and gets its result
FeaturesStep(c) ==
    caller[c].pc = "idle" /\ caller'[c].pc = "returned" /\ caller'[c].op = "getLicenseFeatures"

FeaturesReturned(c) ==
    caller[c].pc = "returned" /\ caller[c].op = "getLicenseFeatures"

(***************************************************************************)
(* C19: in every run, whatever the key, the build phase, the cache, the    *)
(* answers of the authority and the clock, every getEnterpriseLicense      *)
(* call returns active, status active, fallbackLevel live,                 *)
(* isPendingDowngrade false and the all-features set, and every            *)
(* getLicenseFeatures call returns the all-features set; so two runs that  *)
(* differ in any of these return the same. Neither call changes the        *)
(* attempts (no verification started, no request sent), the in-flight      *)
(* slot or a cache entry.                                                  *)
(***************************************************************************)
C19_ResultIndependent ==
    /\ [](\A c \in Callers :
            /\ ResolveReturned(c) =>
                  /\ caller[c].ret.kind = "return"
                  /\ caller[c].ret.value.active
                  /\ caller[c].ret.value.status = "active"
                  /\ caller[c].ret.value.fallbackLevel = "live"
                  /\ ~caller[c].ret.value.isPendingDowngrade
                  /\ caller[c].ret.value.features = AllFeatures
            /\ FeaturesReturned(c) => caller[c].ret = Ret(AllFeatures))
    /\ [][ \A c \in Callers :
             (ResolveStep(c) \/ FeaturesStep(c))
             => /\ att' = att
                /\ fetchLicensePromise' = fetchLicensePromise
                /\ cacheEntry' = cacheEntry
                /\ previousResult' = previousResult ]_vars

\* both operations answered with no key configured, the authority
\* unreachable and a day gone by
C19_Witness ==
    /\ ~key
    /\ ~reachable
    /\ now >= FETCH_LICENSE_TTL_MS
    /\ \E c1, c2 \in Callers : ResolveReturned(c1) /\ FeaturesReturned(c2)

\* the attempts whose promise exists and whose completion callback has not
\* run yet
Unfinished == {a \in Attempts : att[a].pc \notin {"unborn", "finalized"}}

(***************************************************************************)
(* C20: in every reachable state at most one attempt is unfinished, and    *)
(* the in-flight slot holds exactly that attempt (it is empty when there   *)
(* is none); the slot is assigned only when it is empty, to the attempt    *)
(* created in that step; and the completion callback of an attempt runs    *)
(* while the slot holds that attempt, and empties it.                      *)
(***************************************************************************)
C20_AtMostOneOutstanding ==
    /\ [](/\ Cardinality(Unfinished) <= 1
          /\ \A a \in Unfinished : fetchLicensePromise = a
          /\ fetchLicensePromise # 0 => fetchLicensePromise \in Unfinished)
    /\ [][ /\ (fetchLicensePromise' # fetchLicensePromise /\ fetchLicensePromise' # 0)
              => /\ fetchLicensePromise = 0
                 /\ att[fetchLicensePromise'].pc = "unborn"
                 /\ att'[fetchLicensePromise'].pc = "withCache"
           /\ \A a \in Attempts :
                 (att[a].pc = "settled" /\ att'[a].pc = "finalized")
                 => /\ fetchLicensePromise = a
                    /\ fetchLicensePromise' = 0 ]_vars

\* a second attempt has its request in flight after the completion callback
\* of the first has run, and the slot holds the second
C20_Witness ==
    /\ att[1].pc = "finalized"
    /\ att[2].pc = "request"
    /\ att[2].retryCount = 1
    /\ fetchLicensePromise = 2
    /\ Unfinished = {2}

====
